---- MODULE Spec2Model ----
(***************************************************************************)
(* Model of the VectorDB service: the sentence splitter and the semantic   *)
(* chunker of app/services/chunking_service.py, the search path of         *)
(* app/api/routes.py, app/models/schemas.py and                            *)
(* app/services/vector_service.py, the ingestion path of routes.py,        *)
(* app/services/document_processor.py and vector_service.py, and the       *)
(* repository with its score fusion in front of the store.                 *)
(*                                                                         *)
(* A Python str is a sequence of one-character strings.  A float that the  *)
(* chunker compares is a fraction [num, den] with den > 0; den = 0 is the  *)
(* IEEE not-a-number value that numpy returns for 0.0 / 0.0.               *)
(***************************************************************************)
EXTENDS Integers, Sequences, FiniteSets, TLC

VARIABLES
    \* ---- ChunkingService (chunking_service.py) ----
    chunk_size,            \* self.chunk_size
    chunk_overlap,         \* self.chunk_overlap
    similarity_threshold,  \* self.similarity_threshold
    text,                  \* argument of chunk_text / _split_into_sentences
    pc,                    \* "new" before __init__, "call" before the call, "done" after it
    sentences,             \* local: the output of the splitter
    embeddings,            \* local: the output of self.model.encode
    chunks,                \* the returned list of chunk dictionaries
    error,                 \* "none", or the exception the call raised
    encode_calls,          \* number of self.model.encode invocations
    frames,                \* concurrent chunk_text calls: argument, position and result of each
    locals,                \* the local variables of the loop of each concurrent call
    \* ---- sentence splitter called on its own ----
    split_pc,
    split_text,
    split_result,
    \* ---- search path (routes.py, schemas.py, vector_service.py) ----
    search_pc,             \* "received", then "responded" or "not_found" (HTTP) or "returned" (service call)
    path,                  \* the URL path of the POST request, None for a direct service call
    body,                  \* the JSON body of the request
    request,               \* the SearchRequest object built from the body, or None
    repo_calls,            \* the repository search calls made, in order
    service_result,        \* what smart_search returned or raised, None if not called
    response,              \* the HTTP response, None if there is none
    store_answer,          \* what the store answered to the search, None if not asked
    \* ---- the store behind the repository ----
    store,                 \* the set of chunks the store holds
    \* ---- score fusion applied to one candidate set under two weights ----
    fuse_pc,
    fuse_in,               \* the vector scores, the filter and the two weights
    fuse_out,              \* the two rankings, None before the call
    \* ---- ingestion (routes.upload_document, routes.index_chunks, ----
    \* ---- VectorService.index_document)                           ----
    ingest_op,             \* the operation that ran last, "none" at the start
    ingest_failed,         \* the collaborator that failed in it, "none" if none did
    ingest_calls,          \* the repository calls it made
    ingest_response,       \* what it answered: HTTP response or raised exception
    created,               \* every chunk handed out so far: in an upload response or to the repository
    returned,              \* the chunk lists that upload responses carried
    uuid_calls,            \* number of uuid.uuid4() calls so far
    index_request,         \* request.chunks of the last POST /vector/index, None before it
    ingest_ops             \* number of operations run so far

chunkVars == <<chunk_size, chunk_overlap, similarity_threshold, text, pc,
               sentences, embeddings, chunks, error, encode_calls, frames, locals>>
splitVars == <<split_pc, split_text, split_result>>
searchVars == <<search_pc, path, body, request, repo_calls, service_result, response,
                store_answer>>
storeVars == <<store>>
fusionVars == <<fuse_pc, fuse_in, fuse_out>>
ingestVars == <<ingest_op, ingest_failed, ingest_calls, ingest_response,
                created, returned, uuid_calls, index_request, ingest_ops>>

-----------------------------------------------------------------------------
(* Bounds of the model *)

MaxTextLen == 5
MaxSplitLen == 4
MaxChunkSize == 6
MaxNorm == 5

\* Characters of the texts handed to chunk_text
Chars == {"a", ".", " "}
\* Characters of the texts handed to the splitter alone
SplitChars == {"a", ".", "!", "?", " ", "\n"}

RECURSIVE StringsUpTo(_, _)
StringsUpTo(alphabet, n) ==
    IF n = 0 THEN {<<>>}
    ELSE LET shorter == StringsUpTo(alphabet, n - 1)
         IN  shorter \cup {Append(s, c) : s \in {t \in shorter : Len(t) = n - 1},
                                          c \in alphabet}

Texts == StringsUpTo(Chars, MaxTextLen)
SplitTexts == StringsUpTo(SplitChars, MaxSplitLen)

\* Embedding vectors the embedder may return (all have an integer norm)
Vecs == {<<0, 0>>, <<1, 0>>, <<2, 0>>, <<0, 1>>, <<-1, 0>>, <<3, 4>>}

Frac(n, d) == [num |-> n, den |-> d]
NaN == Frac(0, 0)

\* Python's None and a value that is present
None == [some |-> FALSE]
Some(v) == [some |-> TRUE, val |-> v]
Thresholds == {Frac(0, 1), Frac(1, 2), Frac(1, 1)}

-----------------------------------------------------------------------------
(* Python string primitives *)

\* str.isspace / the regex class \s
IsSpace(c) == c \in {" ", "\t", "\n", "\r"}
\* the regex class [.!?]
IsTerminal(c) == c \in {".", "!", "?"}

RECURSIVE lstrip(_)
lstrip(s) == IF s # <<>> /\ IsSpace(Head(s)) THEN lstrip(Tail(s)) ELSE s

RECURSIVE rstrip(_)
rstrip(s) ==
    IF s # <<>> /\ IsSpace(s[Len(s)]) THEN rstrip(SubSeq(s, 1, Len(s) - 1)) ELSE s

\* str.strip()
strip(s) == rstrip(lstrip(s))

\* ' '.join(list)
RECURSIVE join(_)
join(list) ==
    IF list = <<>> THEN <<>>
    ELSE IF Len(list) = 1 THEN list[1]
    ELSE list[1] \o <<" ">> \o join(Tail(list))

\* first index >= i of s that is not whitespace (Len(s) + 1 if none): end of a \s+ match
RECURSIVE SkipSpace(_, _)
SkipSpace(s, i) ==
    IF i <= Len(s) /\ IsSpace(s[i]) THEN SkipSpace(s, i + 1) ELSE i

\* re.split(r'(?<=[.!?])\s+', s), scanning from index i with the piece cur open
RECURSIVE re_split_from(_, _, _)
re_split_from(s, i, cur) ==
    IF i > Len(s) THEN <<cur>>
    ELSE IF IsSpace(s[i]) /\ i > 1 /\ IsTerminal(s[i - 1])
         THEN <<cur>> \o re_split_from(s, SkipSpace(s, i), <<>>)
         ELSE re_split_from(s, i + 1, Append(cur, s[i]))

\* variant: the look-behind is lost, every whitespace run splits
RECURSIVE re_split_any_space_from(_, _, _)
re_split_any_space_from(s, i, cur) ==
    IF i > Len(s) THEN <<cur>>
    ELSE IF IsSpace(s[i])
         THEN <<cur>> \o re_split_any_space_from(s, SkipSpace(s, i), <<>>)
         ELSE re_split_any_space_from(s, i + 1, Append(cur, s[i]))

re_split_any_space(s) == re_split_any_space_from(s, 1, <<>>)

re_split(s) == re_split_from(s, 1, <<>>)

\* ChunkingService._split_into_sentences
split_into_sentences(t) ==
    LET pieces == re_split(t)
        kept == SelectSeq(pieces, LAMBDA p : strip(p) # <<>>)
    IN  [k \in 1..Len(kept) |-> strip(kept[k])]

-----------------------------------------------------------------------------
(* numpy primitives *)

Dot(a, b) == a[1] * b[1] + a[2] * b[2]
Norm(a) == CHOOSE n \in 0..MaxNorm : n * n = Dot(a, a)

\* ChunkingService._calculate_similarity: 0.0 / 0.0 is nan, not an exception
calculate_similarity(emb1, emb2) ==
    LET d == Norm(emb1) * Norm(emb2)
    IN  IF d = 0 THEN NaN ELSE Frac(Dot(emb1, emb2), d)

\* float.__lt__: every comparison with nan is False
LessThan(x, y) ==
    /\ x.den # 0
    /\ y.den # 0
    /\ x.num * y.den < y.num * x.den

-----------------------------------------------------------------------------
(* ChunkingService.chunk_text *)

\* variant: the index counts the chunk being emitted as well
chunk_info_from_one(st) ==
    LET chunk_content == join(st.current_chunk)
    IN  [content        |-> chunk_content,
         chunk_index    |-> Len(st.chunks) + 1,
         start_pos      |-> st.start_pos,
         end_pos        |-> st.start_pos + Len(chunk_content),
         sentence_count |-> Len(st.current_chunk)]

\* the dictionary built from the open group
chunk_info(st) ==
    LET chunk_content == join(st.current_chunk)
    IN  [content        |-> chunk_content,
         chunk_index    |-> Len(st.chunks),
         start_pos      |-> st.start_pos,
         end_pos        |-> st.start_pos + Len(chunk_content),
         sentence_count |-> Len(st.current_chunk)]

\* variant: the similarity clause is lost, only the size clause remains
should_create_new_chunk_size_only(similarity, current_chunk_length, sentence_length) ==
    current_chunk_length + sentence_length > chunk_size

should_create_new_chunk(similarity, current_chunk_length, sentence_length) ==
    \/ LessThan(similarity, similarity_threshold)
    \/ current_chunk_length + sentence_length > chunk_size

\* variant: the next group starts where the closed one ended, no separator
loop_body_no_separator(sents, embs, i, st) ==
    LET similarity == calculate_similarity(embs[i - 1], embs[i])
        sentence_length == Len(sents[i])
    IN  IF should_create_new_chunk(similarity, st.current_chunk_length, sentence_length)
           /\ st.current_chunk # <<>>
        THEN LET info == chunk_info(st)
             IN  [chunks               |-> Append(st.chunks, info),
                  current_chunk        |-> <<sents[i]>>,
                  current_chunk_length |-> sentence_length,
                  start_pos            |-> info.end_pos]
        ELSE [chunks               |-> st.chunks,
              current_chunk        |-> Append(st.current_chunk, sents[i]),
              current_chunk_length |-> st.current_chunk_length + sentence_length + 1,
              start_pos            |-> st.start_pos]

\* one iteration of the loop over i (0-based i of the code is index i + 1 here)
loop_body(sents, embs, i, st) ==
    LET similarity == calculate_similarity(embs[i - 1], embs[i])
        sentence_length == Len(sents[i])
    IN  IF should_create_new_chunk(similarity, st.current_chunk_length, sentence_length)
           /\ st.current_chunk # <<>>
        THEN LET info == chunk_info(st)
             IN  [chunks               |-> Append(st.chunks, info),
                  current_chunk        |-> <<sents[i]>>,
                  current_chunk_length |-> sentence_length,
                  start_pos            |-> info.end_pos + 1]
        ELSE [chunks               |-> st.chunks,
              current_chunk        |-> Append(st.current_chunk, sents[i]),
              current_chunk_length |-> st.current_chunk_length + sentence_length + 1,
              start_pos            |-> st.start_pos]

RECURSIVE loop(_, _, _, _)
loop(sents, embs, i, st) ==
    IF i > Len(sents) THEN st
    ELSE loop(sents, embs, i + 1, loop_body(sents, embs, i, st))

\* variant: the group still open after the loop is not flushed
final_chunk_dropped(st) == st.chunks

\* the final chunk
final_chunk(st) ==
    IF st.current_chunk # <<>> THEN Append(st.chunks, chunk_info(st)) ELSE st.chunks

\* the semantic grouping of lines 116-165
create_chunks(sents, embs) ==
    final_chunk(loop(sents, embs, 2,
                     [chunks               |-> <<>>,
                      current_chunk        |-> <<sents[1]>>,
                      current_chunk_length |-> Len(sents[1]),
                      start_pos            |-> 0]))

\* variant: only the `not text` half of the first guard, and no second guard
empty_input_not_text_only(t) ==
    IF t = <<>> THEN "ValueError: Text cannot be empty" ELSE "none"

\* the two guards of chunk_text that precede the embedder call
empty_input(t) ==
    IF t = <<>> \/ strip(t) = <<>> THEN "ValueError: Text cannot be empty"
    ELSE IF split_into_sentences(t) = <<>> THEN "ValueError: No sentences found in text"
    ELSE "none"

\* what self.model.encode may return for a list of sentences: one vector per
\* sentence, the same vector for the same sentence
Encodings(sents) ==
    {e \in [1..Len(sents) -> Vecs] :
        \A i, j \in 1..Len(sents) : sents[i] = sents[j] => e[i] = e[j]}

\* chunk_text(text, document_id) when the embedder answers with embs
chunk_text(t, embs) ==
    IF empty_input(t) # "none"
    THEN [error |-> empty_input(t), sentences |-> <<>>, embeddings |-> <<>>,
          chunks |-> <<>>, encode_calls |-> 0]
    ELSE LET sents == split_into_sentences(t)
         IN  IF sents = <<>>
             \* sentences[0] of line 118 on an empty list, after the encode of line 114
             THEN [error |-> "IndexError", sentences |-> sents, embeddings |-> embs,
                   chunks |-> <<>>, encode_calls |-> 1]
             ELSE [error |-> "none", sentences |-> sents, embeddings |-> embs,
                   chunks |-> create_chunks(sents, embs), encode_calls |-> 1]

-----------------------------------------------------------------------------
(* Specification of the chunker: one chunk_text call on a service instance *)

\* no concurrent chunk_text calls are in progress
NoCalls == frames = <<>> /\ locals = <<>>

SplitIdle ==
    /\ split_pc = "idle"
    /\ split_text = <<>>
    /\ split_result = <<>>

SearchIdle ==
    /\ search_pc = "idle"
    /\ path = None
    /\ body = None
    /\ request = None
    /\ repo_calls = <<>>
    /\ service_result = None
    /\ response = None
    /\ store_answer = None

StoreIdle == store = {}

FusionIdle ==
    /\ fuse_pc = "idle"
    /\ fuse_in = None
    /\ fuse_out = None

IngestIdle ==
    /\ ingest_op = "none"
    /\ ingest_failed = "none"
    /\ ingest_calls = <<>>
    /\ ingest_response = None
    /\ created = {}
    /\ returned = {}
    /\ uuid_calls = 0
    /\ index_request = None
    /\ ingest_ops = 0

\* settings.chunk_overlap
DefaultChunkOverlap == 0

Init ==
    /\ chunk_size \in 1..MaxChunkSize
    /\ chunk_overlap = DefaultChunkOverlap
    /\ similarity_threshold \in Thresholds
    /\ text \in Texts
    /\ pc = "call"
    /\ sentences = <<>>
    /\ embeddings = <<>>
    /\ chunks = <<>>
    /\ error = "none"
    /\ encode_calls = 0
    /\ NoCalls
    /\ SplitIdle
    /\ SearchIdle
    /\ StoreIdle
    /\ FusionIdle
    /\ IngestIdle

\* chunk_text returns or raises on its input
ChunkText ==
    /\ pc = "call"
    /\ \E embs \in Encodings(split_into_sentences(text)) :
          LET r == chunk_text(text, embs)
          IN  /\ sentences' = r.sentences
              /\ embeddings' = r.embeddings
              /\ chunks' = r.chunks
              /\ error' = r.error
              /\ encode_calls' = r.encode_calls
    /\ pc' = "done"
    /\ UNCHANGED <<chunk_size, chunk_overlap, similarity_threshold, text, frames, locals>>
    /\ UNCHANGED <<splitVars, searchVars, storeVars, fusionVars, ingestVars>>

\* chunk_text when self.model.encode raises: the exception propagates
ChunkTextEncodeFails ==
    /\ pc = "call"
    /\ empty_input(text) = "none"
    /\ sentences' = split_into_sentences(text)
    /\ embeddings' = <<>>
    /\ chunks' = <<>>
    /\ error' = "EmbedderError"
    /\ encode_calls' = 1
    /\ pc' = "done"
    /\ UNCHANGED <<chunk_size, chunk_overlap, similarity_threshold, text, frames, locals>>
    /\ UNCHANGED <<splitVars, searchVars, storeVars, fusionVars, ingestVars>>

vars == <<chunkVars, splitVars, searchVars, storeVars, fusionVars, ingestVars>>

Next == ChunkText \/ ChunkTextEncodeFails

Spec == Init /\ [][Next]_vars

-----------------------------------------------------------------------------
(* Specification of the splitter: _split_into_sentences applied to a text *)

DefaultChunkSize == 1000

\* a freshly constructed ChunkingService on which chunk_text is not called
ChunkIdle ==
    /\ chunk_size = DefaultChunkSize
    /\ chunk_overlap = DefaultChunkOverlap
    /\ similarity_threshold = Frac(1, 2)
    /\ text = <<>>
    /\ pc = "idle"
    /\ sentences = <<>>
    /\ embeddings = <<>>
    /\ chunks = <<>>
    /\ error = "none"
    /\ encode_calls = 0
    /\ NoCalls

InitSplitter ==
    /\ ChunkIdle
    /\ split_pc = "call"
    /\ split_text \in SplitTexts
    /\ split_result = <<>>
    /\ SearchIdle
    /\ StoreIdle
    /\ FusionIdle
    /\ IngestIdle

SplitIntoSentences ==
    /\ split_pc = "call"
    /\ split_result' = split_into_sentences(split_text)
    /\ split_pc' = "done"
    /\ UNCHANGED split_text
    /\ UNCHANGED <<chunkVars, searchVars, storeVars, fusionVars, ingestVars>>

NextSplitter == SplitIntoSentences

SpecSplitter == InitSplitter /\ [][NextSplitter]_vars

-----------------------------------------------------------------------------
(* Specification of construction: ChunkingService(chunk_size, chunk_overlap) *)
(* followed by one chunk_text call on the new instance                       *)

MaxCtorTextLen == 3

CtorTexts == StringsUpTo(Chars, MaxCtorTextLen)

\* the arguments a caller may pass: None, or an integer
CtorSizes == {None} \cup {Some(n) : n \in 0..MaxChunkSize}
CtorOverlaps == {None} \cup {Some(n) : n \in 0..(MaxChunkSize + 1)}

\* `arg or default` for an Optional[int]: None and 0 are falsy
or_default(arg, default) ==
    IF arg.some /\ arg.val # 0 THEN arg.val ELSE default

InitConstruct ==
    /\ pc = "new"
    /\ chunk_size = None
    /\ chunk_overlap = None
    /\ similarity_threshold = None
    /\ text \in CtorTexts
    /\ sentences = <<>>
    /\ embeddings = <<>>
    /\ chunks = <<>>
    /\ error = "none"
    /\ encode_calls = 0
    /\ NoCalls
    /\ SplitIdle
    /\ SearchIdle
    /\ StoreIdle
    /\ FusionIdle
    /\ IngestIdle

\* ChunkingService.__init__: no argument is rejected
Construct ==
    /\ pc = "new"
    /\ \E size \in CtorSizes, overlap \in CtorOverlaps :
          /\ chunk_size' = or_default(size, DefaultChunkSize)
          /\ chunk_overlap' = or_default(overlap, DefaultChunkOverlap)
    /\ similarity_threshold' = Frac(1, 2)
    /\ pc' = "call"
    /\ UNCHANGED <<text, sentences, embeddings, chunks, error, encode_calls, frames, locals>>
    /\ UNCHANGED <<splitVars, searchVars, storeVars, fusionVars, ingestVars>>

NextConstruct == Construct \/ ChunkText \/ ChunkTextEncodeFails

SpecConstruct == InitConstruct /\ [][NextConstruct]_vars

-----------------------------------------------------------------------------
(* Specification of concurrent chunking: two chunk_text calls on one        *)
(* ChunkingService instance, interleaved statement by statement             *)

Calls == {1, 2}

\* the documents handed to the concurrent calls
ConcTexts == {<<"a", ".", " ", "a">>,
              <<"a", ".", " ", "a", ".", " ", "a">>,
              <<".">>,
              <<" ">>}
ConcSizes == {2, 4}

\* the embeddings of the concurrent calls: equal, orthogonal and zero vectors
ConcVecs == {<<1, 0>>, <<0, 1>>, <<0, 0>>}
ConcEncodings(sents) ==
    {e \in Encodings(sents) : \A i \in 1..Len(sents) : e[i] \in ConcVecs}

\* variant: the grouping state is kept on the instance, one copy for all calls
locals_on_self(c) == CHOOSE k \in Calls : \A j \in Calls : k <= j

\* where call c keeps chunks, current_chunk, current_chunk_length, start_pos
\* and i: they are local variables of the call
locals_of(c) == c

\* the local state before line 117 is reached
NoLocals ==
    [i |-> 0, st |-> [chunks |-> <<>>, current_chunk |-> <<>>,
                      current_chunk_length |-> 0, start_pos |-> 0]]

InitConcurrent ==
    /\ chunk_size \in ConcSizes
    /\ chunk_overlap = DefaultChunkOverlap
    /\ similarity_threshold = Frac(1, 2)
    /\ text = <<>>
    /\ pc = "idle"
    /\ sentences = <<>>
    /\ embeddings = <<>>
    /\ chunks = <<>>
    /\ error = "none"
    /\ encode_calls = 0
    /\ \E t \in [Calls -> ConcTexts] :
          frames = [c \in Calls |->
                       [text |-> t[c], pc |-> "call", sentences |-> <<>>,
                        embeddings |-> <<>>, error |-> "none", chunks |-> <<>>]]
    /\ locals = [c \in Calls |-> NoLocals]
    /\ SplitIdle
    /\ SearchIdle
    /\ StoreIdle
    /\ FusionIdle
    /\ IngestIdle

\* what a step of a concurrent call leaves alone: the instance and the
\* variables of the single call
InstanceUnchanged ==
    /\ UNCHANGED <<chunk_size, chunk_overlap, similarity_threshold, text, pc,
                   sentences, embeddings, chunks, error, encode_calls>>
    /\ UNCHANGED <<splitVars, searchVars, storeVars, fusionVars, ingestVars>>

\* lines 101-110 of a call: the guards and the splitter
SplitSentences ==
    /\ \E c \in Calls :
          /\ frames[c].pc = "call"
          /\ frames' = IF empty_input(frames[c].text) # "none"
                       THEN [frames EXCEPT ![c].pc = "done",
                                           ![c].error = empty_input(frames[c].text)]
                       ELSE [frames EXCEPT ![c].pc = "encode",
                                           ![c].sentences =
                                               split_into_sentences(frames[c].text)]
    /\ UNCHANGED locals
    /\ InstanceUnchanged

\* lines 114-120 of a call: the embedder call and the first group
EncodeSentences ==
    /\ \E c \in Calls :
          /\ frames[c].pc = "encode"
          /\ \E embs \in ConcEncodings(frames[c].sentences) :
                frames' = [frames EXCEPT ![c].pc = "loop", ![c].embeddings = embs]
          /\ locals' = [locals EXCEPT ![locals_of(c)] =
                            [i |-> 2,
                             st |-> [chunks |-> <<>>,
                                     current_chunk |-> <<frames[c].sentences[1]>>,
                                     current_chunk_length |-> Len(frames[c].sentences[1]),
                                     start_pos |-> 0]]]
    /\ InstanceUnchanged

\* lines 122-153 of a call: one iteration of the loop
LoopStep ==
    /\ \E c \in Calls :
          /\ frames[c].pc = "loop"
          /\ locals[locals_of(c)].i <= Len(frames[c].sentences)
          /\ \E l \in {locals[locals_of(c)]} :
                locals' = [locals EXCEPT ![locals_of(c)] =
                              [i |-> l.i + 1,
                               st |-> loop_body(frames[c].sentences,
                                                frames[c].embeddings, l.i, l.st)]]
    /\ UNCHANGED frames
    /\ InstanceUnchanged

\* lines 155-168 of a call: the final chunk and the return
ReturnChunks ==
    /\ \E c \in Calls :
          /\ frames[c].pc = "loop"
          /\ locals[locals_of(c)].i > Len(frames[c].sentences)
          /\ frames' = [frames EXCEPT ![c].pc = "done",
                                      ![c].chunks = final_chunk(locals[locals_of(c)].st)]
    /\ UNCHANGED locals
    /\ InstanceUnchanged

NextConcurrent == SplitSentences \/ EncodeSentences \/ LoopStep \/ ReturnChunks

SpecConcurrent == InitConcurrent /\ [][NextConcurrent]_vars

-----------------------------------------------------------------------------
(* Request models of schemas.py *)

MaxTopK == 100
DefaultTopK == 5
MaxStored == 3

\* values a JSON body may carry
Queries == {"", "refund policy"}
Filters == {[source |-> None, tags |-> None],
            [source |-> Some("pdf"), tags |-> Some({"billing"})]}
TopKs == {-1, 0, 1, 2, DefaultTopK, MaxTopK, MaxTopK + 1}
Weights == {Frac(0, 1), Frac(7, 10), Frac(1, 1), Frac(3, 2)}

Optional(S) == {None} \cup {Some(v) : v \in S}

Bodies == [query : Optional(Queries), filters : Optional(Filters),
           top_k : Optional(TopKs), weight_vector : Optional(Weights)]

field_or(opt, default) == IF opt.some THEN opt.val ELSE default

\* variant: the upper bound le=100 is lost
valid_top_k_no_upper(k) == k >= 1

\* Field(default=5, ge=1, le=100)
valid_top_k(k) == k >= 1 /\ k <= MaxTopK

\* Field(default=0.7, ge=0, le=1)
valid_weight_vector(w) == ~LessThan(w, Frac(0, 1)) /\ ~LessThan(Frac(1, 1), w)

\* Each model is built from a body b: the object, or None when validation
\* fails.  Fields the body has and the model does not declare are ignored; an
\* attribute the model does not have reads as None through getattr.
HybridSearchRequest(b) ==
    IF /\ b.query.some
       /\ b.filters.some
       /\ valid_top_k(field_or(b.top_k, DefaultTopK))
       /\ valid_weight_vector(field_or(b.weight_vector, Frac(7, 10)))
    THEN Some([kind |-> "HybridSearchRequest", query |-> b.query,
               filters |-> b.filters, top_k |-> field_or(b.top_k, DefaultTopK),
               weight_vector |-> Some(field_or(b.weight_vector, Frac(7, 10)))])
    ELSE None

SemanticSearchRequest(b) ==
    IF b.query.some /\ valid_top_k(field_or(b.top_k, DefaultTopK))
    THEN Some([kind |-> "SemanticSearchRequest", query |-> b.query,
               filters |-> None, top_k |-> field_or(b.top_k, DefaultTopK),
               weight_vector |-> None])
    ELSE None

MetadataSearchRequest(b) ==
    IF b.filters.some /\ valid_top_k(field_or(b.top_k, DefaultTopK))
    THEN Some([kind |-> "MetadataSearchRequest", query |-> None,
               filters |-> b.filters, top_k |-> field_or(b.top_k, DefaultTopK),
               weight_vector |-> None])
    ELSE None

\* Union[HybridSearchRequest, SemanticSearchRequest, MetadataSearchRequest]
SearchRequest(b) ==
    IF HybridSearchRequest(b).some THEN HybridSearchRequest(b)
    ELSE IF SemanticSearchRequest(b).some THEN SemanticSearchRequest(b)
    ELSE MetadataSearchRequest(b)

\* SearchResult(chunk_id=chunk.chunk_id, ..., similarity_score=score)
SearchResult(pair) ==
    [chunk_id |-> pair.chunk.chunk_id, similarity_score |-> pair.score]

-----------------------------------------------------------------------------
(* Arithmetic on scores *)

FAdd(x, y) == Frac(x.num * y.den + y.num * x.den, x.den * y.den)
FSub(x, y) == Frac(x.num * y.den - y.num * x.den, x.den * y.den)
FMul(x, y) == Frac(x.num * y.num, x.den * y.den)
FEq(x, y) == x.num * y.den = y.num * x.den

-----------------------------------------------------------------------------
(* The store and the repository in front of it.  The store holds chunks; to *)
(* a vector search it answers with a score per chunk it holds, or it fails. *)
(* Chunk n has the chunk_id "c<n>"; ids are ordered by n.                   *)

ChunkModel(n) ==
    [chunk_id |-> n,
     document_id |-> "doc_1",
     user_id |-> "u1",
     content |-> "text",
     metadata |-> [source |-> IF n % 2 = 1 THEN "pdf" ELSE "ocr",
                   page_number |-> 1,
                   chunk_index |-> n - 1,
                   tags |-> IF n % 3 = 1 THEN {"billing"} ELSE {}]]

StoredChunks == {ChunkModel(n) : n \in 1..MaxStored}

VectorScores == {Frac(2, 5), Frac(9, 10)}

\* what the store may answer when it holds the chunk set held: a score for
\* each chunk, or an exception; unmappable holds the chunks that come back as
\* an object from which no SearchResult can be built
StoreAnswers(held) ==
    {[raised |-> "none", scores |-> sc, unmappable |-> {}] :
        sc \in [held -> VectorScores]}
    \cup {[raised |-> "none", scores |-> [d \in held |-> Frac(9, 10)],
           unmappable |-> {c}] : c \in held}
    \cup {[raised |-> e, scores |-> [c \in held |-> Frac(0, 1)], unmappable |-> {}] :
             e \in {"ValueError", "Exception"}}

\* Filter: equality on source, non-empty intersection on tags; a field that
\* is None does not constrain
matches(filters, chunk) ==
    /\ filters.source.some => chunk.metadata.source = filters.source.val
    /\ filters.tags.some => chunk.metadata.tags \cap filters.tags.val # {}

\* the total order of results: descending score, then descending
\* vector_score, then ascending chunk_id
ranks_before(x, y) ==
    \/ LessThan(y.score, x.score)
    \/ /\ FEq(x.score, y.score)
       /\ \/ LessThan(y.vector_score, x.vector_score)
          \/ /\ FEq(x.vector_score, y.vector_score)
             /\ x.chunk.chunk_id < y.chunk.chunk_id

RECURSIVE ranked(_)
\* the items of a set in the total order
ranked(items) ==
    IF items = {} THEN <<>>
    ELSE LET first == CHOOSE x \in items :
                          \A y \in items \ {x} : ranks_before(x, y)
         IN  <<first>> \o ranked(items \ {first})

\* the first n elements of a list
truncate(list, n) == SubSeq(list, 1, IF n < Len(list) THEN n ELSE Len(list))

to_pairs(list) == [k \in 1..Len(list) |-> [chunk |-> list[k].chunk, score |-> list[k].score]]

\* variant: the two weights exchanged
fused_score_swapped(weight, vector_score, metadata_match) ==
    FAdd(FMul(FSub(Frac(1, 1), weight), vector_score),
         FMul(weight, metadata_match))

\* fused_score = weight_vector * vector_score + (1 - weight_vector) * metadata_match
fused_score(weight, vector_score, metadata_match) ==
    FAdd(FMul(weight, vector_score),
         FMul(FSub(Frac(1, 1), weight), metadata_match))

\* ScoreFusion: every candidate of the vector search (scores maps each chunk
\* the store holds to its vector score), scored and ranked
fuse(scores, filters, weight) ==
    ranked({[chunk |-> c,
             vector_score |-> scores[c],
             score |-> fused_score(weight, scores[c],
                                   IF matches(filters, c) THEN Frac(1, 1)
                                   ELSE Frac(0, 1))] : c \in DOMAIN scores})

\* VectorRepository.hybrid_search(query, filters, top_k, weight_vector)
hybrid_search(scores, filters, top_k, weight) ==
    to_pairs(truncate(fuse(scores, filters, weight), top_k))

\* VectorRepository.semantic_search(query, top_k)
semantic_search(scores, top_k) ==
    to_pairs(truncate(ranked({[chunk |-> c, vector_score |-> scores[c],
                              score |-> scores[c]] : c \in DOMAIN scores}), top_k))

\* VectorRepository.metadata_search(filters, top_k)
metadata_search(scores, filters, top_k) ==
    to_pairs(truncate(ranked({[chunk |-> c, vector_score |-> Frac(1, 1),
                              score |-> Frac(1, 1)] :
                                 c \in {d \in DOMAIN scores : matches(filters, d)}}),
                      top_k))

\* the pairs the repository returns for a search call when the store answers
repository(answer, call) ==
    IF call.op = "hybrid_search"
    THEN hybrid_search(answer.scores, call.filters, call.top_k, call.weight_vector)
    ELSE IF call.op = "semantic_search"
    THEN semantic_search(answer.scores, call.top_k)
    ELSE IF call.op = "metadata_search"
    THEN metadata_search(answer.scores, call.filters, call.top_k)
    ELSE <<>>

RECURSIVE store_after(_, _)
\* the store after a list of repository calls: index_chunks puts its chunks,
\* the search operations only read
store_after(held, calls) ==
    IF calls = <<>> THEN held
    ELSE store_after(IF Head(calls).op = "index_chunks"
                     THEN held \cup {Head(calls).chunks[k] :
                                        k \in 1..Len(Head(calls).chunks)}
                     ELSE held,
                     Tail(calls))

-----------------------------------------------------------------------------
(* VectorService.smart_search *)

\* truth value of `query` (None or a str) and of `filters` (None or an object)
truthy_query(q) == q.some /\ q.val # ""
truthy_filters(f) == f.some

\* the three repository calls of smart_search
hybrid_call(req) ==
    [op |-> "hybrid_search", query |-> req.query.val, filters |-> req.filters.val,
     top_k |-> req.top_k, weight_vector |-> field_or(req.weight_vector, Frac(7, 10))]
semantic_call(req) ==
    [op |-> "semantic_search", query |-> req.query.val, top_k |-> req.top_k]
metadata_call(req) ==
    [op |-> "metadata_search", filters |-> req.filters.val, top_k |-> req.top_k]

\* a repository call made with the store answering out
called(call, out) ==
    [calls |-> <<call>>, raised |-> out.raised,
     results |-> IF out.raised = "none" THEN repository(out, call) ELSE <<>>]

\* variant: the first test reads `query or filters`
dispatch_or(req, out) ==
    IF truthy_query(req.query) \/ truthy_filters(req.filters)
    THEN called([op |-> "hybrid_search", query |-> req.query,
                 filters |-> field_or(req.filters, [source |-> None, tags |-> None]),
                 top_k |-> req.top_k,
                 weight_vector |-> field_or(req.weight_vector, Frac(7, 10))], out)
    ELSE [calls |-> <<>>, raised |-> "none", results |-> <<>>]

\* variant: no else branch, `results` is unbound when neither is present
dispatch_no_else(req, out) ==
    IF truthy_query(req.query) /\ truthy_filters(req.filters)
    THEN called(hybrid_call(req), out)
    ELSE IF truthy_query(req.query)
    THEN called(semantic_call(req), out)
    ELSE IF truthy_filters(req.filters)
    THEN called(metadata_call(req), out)
    ELSE [calls |-> <<>>, raised |-> "UnboundLocalError", results |-> <<>>]

\* variant: top_k is read under a wrong attribute name, so the default 5 is used
dispatch_default_top_k(req, out) ==
    LET r == [req EXCEPT !.top_k = DefaultTopK]
    IN  IF truthy_query(r.query) /\ truthy_filters(r.filters)
        THEN called(hybrid_call(r), out)
        ELSE IF truthy_query(r.query)
        THEN called(semantic_call(r), out)
        ELSE IF truthy_filters(r.filters)
        THEN called(metadata_call(r), out)
        ELSE [calls |-> <<>>, raised |-> "none", results |-> <<>>]

\* variant: a semantic query is also put into the store as a chunk
dispatch_remember_query(req, out) ==
    IF truthy_query(req.query) /\ truthy_filters(req.filters)
    THEN called(hybrid_call(req), out)
    ELSE IF truthy_query(req.query)
    THEN [calls |-> <<semantic_call(req),
                      [op |-> "index_chunks", chunks |-> <<ChunkModel(0)>>]>>,
          raised |-> out.raised,
          results |-> IF out.raised = "none"
                      THEN repository(out, semantic_call(req)) ELSE <<>>]
    ELSE IF truthy_filters(req.filters)
    THEN called(metadata_call(req), out)
    ELSE [calls |-> <<>>, raised |-> "none", results |-> <<>>]

\* variant: a repository call that raised is made a second time
dispatch_retry(req, out) ==
    LET call == IF truthy_query(req.query) /\ truthy_filters(req.filters)
                THEN <<hybrid_call(req)>>
                ELSE IF truthy_query(req.query) THEN <<semantic_call(req)>>
                ELSE IF truthy_filters(req.filters) THEN <<metadata_call(req)>>
                ELSE <<>>
    IN  IF call = <<>> THEN [calls |-> <<>>, raised |-> "none", results |-> <<>>]
        ELSE IF out.raised # "none"
        THEN [calls |-> call \o call, raised |-> out.raised, results |-> <<>>]
        ELSE called(call[1], out)

\* lines 93-126: the repository call selected by the request; out is the
\* answer of the store when a call is made
dispatch(req, out) ==
    LET query == req.query
        filters == req.filters
    IN  IF truthy_query(query) /\ truthy_filters(filters)
        THEN called(hybrid_call(req), out)
        ELSE IF truthy_query(query)
        THEN called(semantic_call(req), out)
        ELSE IF truthy_filters(filters)
        THEN called(metadata_call(req), out)
        ELSE [calls |-> <<>>, raised |-> "none", results |-> <<>>]

\* variant: each result is inserted at the front of formatted_results
smart_search_prepend(req, out) ==
    LET d == dispatch(req, out)
        n == Len(d.results)
    IN  IF d.raised # "none"
        THEN [calls |-> d.calls, raised |-> d.raised, results |-> <<>>]
        ELSE [calls |-> d.calls, raised |-> "none",
              results |-> [k \in 1..n |-> SearchResult(d.results[n + 1 - k])]]

RECURSIVE format_results(_, _, _)
\* lines 128-140: the loop that appends one SearchResult per pair; the
\* constructor raises pydantic's ValidationError on an unmappable chunk and
\* the exception leaves the loop and the function
format_results(pairs, unmappable, formatted_results) ==
    IF pairs = <<>> THEN [raised |-> "none", results |-> formatted_results]
    ELSE IF Head(pairs).chunk \in unmappable
    THEN [raised |-> "ValidationError", results |-> <<>>]
    ELSE format_results(Tail(pairs), unmappable,
                        Append(formatted_results, SearchResult(Head(pairs))))

\* variant: the loop swallows the exception and returns what it has built
smart_search_partial(req, out) ==
    LET d == dispatch(req, out)
        n == Len(d.results)
        bad == {k \in 1..n : d.results[k].chunk \in out.unmappable}
        m == IF bad = {} THEN n ELSE (CHOOSE k \in bad : \A j \in bad : k <= j) - 1
    IN  IF d.raised # "none"
        THEN [calls |-> d.calls, raised |-> d.raised, results |-> <<>>]
        ELSE [calls |-> d.calls, raised |-> "none",
              results |-> [k \in 1..m |-> SearchResult(d.results[k])]]

\* smart_search(request): the calls made, the exception raised ("none" if it
\* returns) and the formatted results
smart_search(req, out) ==
    LET d == dispatch(req, out)
    IN  IF d.raised # "none"
        THEN [calls |-> d.calls, raised |-> d.raised, results |-> <<>>]
        ELSE LET f == format_results(d.results, out.unmappable, <<>>)
             IN  [calls |-> d.calls, raised |-> f.raised, results |-> f.results]

-----------------------------------------------------------------------------
(* routes.unified_search *)

\* the body of the try block
unified_search_try(req, out) ==
    LET query == req.query
        filters == req.filters
    IN  IF ~truthy_query(query) /\ ~truthy_filters(filters)
        THEN [calls |-> <<>>, service |-> None, raised |-> "HTTPException",
              status |-> 400, detail |-> "Provide 'query' and/or 'filters'",
              results |-> <<>>]
        ELSE LET r == smart_search(req, out)
             IN  [calls |-> r.calls, service |-> Some(r), raised |-> r.raised,
                  status |-> 200, detail |-> "", results |-> r.results]

\* the except clauses: ValueError, then Exception (HTTPException is an
\* Exception and not a ValueError; pydantic's ValidationError is a ValueError)
unified_search(req, out) ==
    LET t == unified_search_try(req, out)
    IN  IF t.raised = "none"
        THEN [calls |-> t.calls, service |-> t.service,
              response |-> [status |-> 200, detail |-> "", results |-> t.results]]
        ELSE IF t.raised \in {"ValueError", "ValidationError"}
        THEN [calls |-> t.calls, service |-> t.service,
              response |-> [status |-> 400, detail |-> "str(e)", results |-> <<>>]]
        ELSE [calls |-> t.calls, service |-> t.service,
              response |-> [status |-> 500, detail |-> "Search execution failed.",
                            results |-> <<>>]]

-----------------------------------------------------------------------------
(* Specification of the search path: one body, sent by POST to a path of    *)
(* the application or used to build the request of a smart_search call      *)

\* the paths under which the application registers a POST handler: the
\* router's prefix "/vector" in front of "/upload", "/index" and "/search"
PostRoutes ==
    [p \in {"/vector/upload", "/vector/index", "/vector/search"} |->
        CASE p = "/vector/upload" -> "upload_document"
          [] p = "/vector/index"  -> "index_chunks"
          [] p = "/vector/search" -> "unified_search"]

\* the handler that the application selects for a POST to path p, "none" when
\* no route matches
router(p) == IF p \in DOMAIN PostRoutes THEN PostRoutes[p] ELSE "none"

\* the search paths that clients post to
SearchPaths == {"/vector/search", "/vector/search/semantic",
                "/vector/search/metadata", "/vector/search/hybrid"}

InitSearch ==
    /\ ChunkIdle
    /\ SplitIdle
    /\ search_pc = "received"
    /\ path \in Optional(SearchPaths)
    /\ body \in Bodies
    /\ request = None
    /\ repo_calls = <<>>
    /\ service_result = None
    /\ response = None
    /\ store_answer = None
    /\ store \in SUBSET StoredChunks
    /\ FusionIdle
    /\ IngestIdle

\* POST /vector/search: validation of the body against SearchRequest (a 422
\* response when it fails), then unified_search
PostSearch ==
    /\ search_pc = "received"
    /\ path.some
    /\ router(path.val) = "unified_search"
    /\ request' = SearchRequest(body)
    /\ IF ~SearchRequest(body).some
       THEN /\ response' = Some([status |-> 422, detail |-> "validation error",
                                 results |-> <<>>])
            /\ repo_calls' = <<>>
            /\ service_result' = None
            /\ store_answer' = None
            /\ store' = store
       ELSE \E out \in StoreAnswers(store) :
               \E h \in {unified_search(SearchRequest(body).val, out)} :
                   /\ response' = Some(h.response)
                   /\ repo_calls' = h.calls
                   /\ service_result' = h.service
                   /\ store_answer' = IF h.calls = <<>> THEN None ELSE Some(out)
                   /\ store' = store_after(store, h.calls)
    /\ search_pc' = "responded"
    /\ UNCHANGED <<path, body>>
    /\ UNCHANGED <<chunkVars, splitVars, fusionVars, ingestVars>>

\* vector_service.smart_search(request) called with a constructed request
SmartSearchCall ==
    /\ search_pc = "received"
    /\ path = None
    /\ SearchRequest(body).some
    /\ request' = SearchRequest(body)
    /\ \E out \in StoreAnswers(store) :
          \E r \in {smart_search(SearchRequest(body).val, out)} :
              /\ service_result' = Some(r)
              /\ repo_calls' = r.calls
              /\ store_answer' = IF r.calls = <<>> THEN None ELSE Some(out)
              /\ store' = store_after(store, r.calls)
    /\ response' = None
    /\ search_pc' = "returned"
    /\ UNCHANGED <<path, body>>
    /\ UNCHANGED <<chunkVars, splitVars, fusionVars, ingestVars>>

\* POST to a path for which no route is registered: the application answers
\* 404 and no handler runs
NoRoute ==
    /\ search_pc = "received"
    /\ path.some
    /\ router(path.val) = "none"
    /\ response' = Some([status |-> 404, detail |-> "Not Found", results |-> <<>>])
    /\ search_pc' = "not_found"
    /\ UNCHANGED <<path, body, request, repo_calls, service_result, store_answer, store>>
    /\ UNCHANGED <<chunkVars, splitVars, fusionVars, ingestVars>>

NextSearch == PostSearch \/ SmartSearchCall \/ NoRoute

SpecSearch == InitSearch /\ [][NextSearch]_vars

-----------------------------------------------------------------------------
(* Specification of score fusion: one candidate set and one filter, ranked *)
(* under two weights w1 <= w2                                              *)

FusionFilters == Filters \cup {[source |-> Some("ocr"), tags |-> None]}
FusionWeights == {Frac(0, 1), Frac(1, 2), Frac(7, 10), Frac(1, 1)}

\* the candidate sets: some of the stored chunks, each with a vector score
Candidates == UNION {[held -> VectorScores] : held \in SUBSET StoredChunks}

InitFusion ==
    /\ fuse_pc = "call"
    /\ fuse_in \in {i \in [scores : Candidates, filters : FusionFilters,
                            w1 : FusionWeights, w2 : FusionWeights] :
                       ~LessThan(i.w2, i.w1)}
    /\ fuse_out = None
    /\ ChunkIdle
    /\ SplitIdle
    /\ SearchIdle
    /\ StoreIdle
    /\ IngestIdle

\* the fused ranking of the candidates, computed under each of the weights
Fuse ==
    /\ fuse_pc = "call"
    /\ fuse_out' = Some([under_w1 |-> fuse(fuse_in.scores, fuse_in.filters, fuse_in.w1),
                         under_w2 |-> fuse(fuse_in.scores, fuse_in.filters, fuse_in.w2)])
    /\ fuse_pc' = "done"
    /\ UNCHANGED fuse_in
    /\ UNCHANGED <<chunkVars, splitVars, searchVars, storeVars, ingestVars>>

NextFusion == Fuse

SpecFusion == InitFusion /\ [][NextFusion]_vars

-----------------------------------------------------------------------------
(* Ingestion: document_processor.py, routes.upload_document,               *)
(* routes.index_chunks and VectorService.index_document.  An exception is  *)
(* its class (ValueError, HTTPException, or Exception for any other class) *)
(* and str(e), a list of text pieces.                                      *)

MaxOps == 2
MaxSizeMb == 10

Exc(type, msg) == [type |-> type, msg |-> msg]

\* what the libraries behind the collaborators say when they fail
ExtractorText == "EOF marker not found"
EmbedderText == "CUDA out of memory"
StoreText == "connection refused"
CollaboratorTexts == {ExtractorText, EmbedderText, StoreText}

elements(list) == {list[k] : k \in 1..Len(list)}

digits == <<"0", "1", "2", "3", "4", "5", "6", "7", "8", "9">>

RECURSIVE int_str(_)
\* str(n) for n >= 0
int_str(n) ==
    IF n < 10 THEN <<digits[n + 1]>>
    ELSE int_str(n \div 10) \o <<digits[(n % 10) + 1]>>

\* ---- the uploaded file ----

PageTexts == {<<" ">>, <<"a", ".", " ", ".">>}
\* the page texts of the PDFs: a blank page, one page, a blank page before a
\* page with text, two pages with text
PdfTexts == {<<<<" ">>>>,
             <<<<"a", ".", " ", ".">>>>,
             <<<<" ">>, <<"a", ".", " ", ".">>>>,
             <<<<"a", ".", " ", ".">>, <<"a", ".", " ", ".">>>>}
PageNumbers == {1, 2}
ImageContentTypes == {"image/png"}
ImageExts == {".jpg", ".jpeg", ".png", ".bmp", ".tiff", ".gif"}
FileTypes == {[content_type |-> "application/pdf", file_ext |-> ".pdf"],
              [content_type |-> "image/png", file_ext |-> ".png"],
              [content_type |-> "application/octet-stream", file_ext |-> ".txt"],
              [content_type |-> "application/zip", file_ext |-> ".zip"]}
FileSizes == {0, 1, MaxSizeMb * 1024 * 1024 + 1}

\* a file: its type, its length in bytes, and the texts its bytes hold (one
\* per page of a PDF, one text otherwise)
Files == {f \in [type : FileTypes, size : FileSizes, texts : PdfTexts] :
             f.type.file_ext # ".pdf" => Len(f.texts) = 1}

\* ---- document_processor.py ----

validate_file(file) ==
    IF file.size > MaxSizeMb * 1024 * 1024
    THEN Some(Exc("ValueError", <<"File too large: ", "Maximum allowed: ">>))
    ELSE IF file.size = 0
    THEN Some(Exc("ValueError", <<"File is empty">>))
    ELSE None

RECURSIVE pdf_pages(_, _)
\* the pages with text on them, numbered from 1 by their place in the PDF
pdf_pages(texts, page_num) ==
    IF page_num > Len(texts) THEN <<>>
    ELSE (IF strip(texts[page_num]) # <<>>
          THEN <<[page_number |-> page_num, text |-> texts[page_num]]>>
          ELSE <<>>) \o pdf_pages(texts, page_num + 1)

\* lib is what the PDF library does: None, or the exception it raises
extract_text_from_pdf(file, lib) ==
    IF lib.some
    THEN [raised |-> Some(Exc("ValueError",
                              <<"Failed to extract text from PDF: ">> \o lib.val.msg)),
          pages |-> <<>>, total_pages |-> 0, source |-> "pdf"]
    ELSE [raised |-> None, pages |-> pdf_pages(file.texts, 1),
          total_pages |-> Len(file.texts), source |-> "pdf"]

\* lib is what PIL and tesseract do: None, or the exception they raise
extract_text_from_image(file, lib) ==
    LET inner == IF lib.some THEN lib
                 ELSE IF strip(file.texts[1]) = <<>>
                 THEN Some(Exc("ValueError", <<"No text detected in image">>))
                 ELSE None
    IN  IF inner.some
        THEN [raised |-> Some(Exc("ValueError",
                                  <<"Failed to extract text from image: ">> \o inner.val.msg)),
              pages |-> <<>>, total_pages |-> 0, source |-> "ocr"]
        ELSE [raised |-> None,
              pages |-> <<[page_number |-> 1, text |-> file.texts[1]]>>,
              total_pages |-> 1, source |-> "ocr"]

\* the branch extract_text_from_file takes
file_kind(file) ==
    IF file.type.content_type = "application/pdf" \/ file.type.file_ext = ".pdf"
    THEN "pdf"
    ELSE IF file.type.content_type \in ImageContentTypes \/ file.type.file_ext \in ImageExts
    THEN "image"
    ELSE IF file.type.content_type = "text/plain" \/ file.type.file_ext = ".txt"
    THEN "text"
    ELSE "unsupported"

extract_text_from_file(file, lib) ==
    IF file_kind(file) = "pdf" THEN extract_text_from_pdf(file, lib)
    ELSE IF file_kind(file) = "image" THEN extract_text_from_image(file, lib)
    ELSE IF file_kind(file) = "text"
    THEN [raised |-> None,
          pages |-> <<[page_number |-> 1, text |-> file.texts[1]]>>,
          total_pages |-> 1, source |-> "text"]
    ELSE [raised |-> Some(Exc("ValueError", <<"Unsupported file type: ">>)),
          pages |-> <<>>, total_pages |-> 0, source |-> "none"]

\* what the extraction library may do for a file: it is called for a valid
\* PDF or image only
LibOutcomes(file) ==
    IF validate_file(file).some \/ file_kind(file) \notin {"pdf", "image"}
    THEN {None}
    ELSE {None, Some(Exc("Exception", <<ExtractorText>>))}

\* ---- the chunker as the handlers call it ----

\* the vectors of the embedder here: the first sentence's vector is fixed,
\* a later sentence's vector has similarity 1 or 0 with it
IngestVecs == {<<1, 0>>, <<0, 1>>}

\* what self.model.encode may do for a text: vectors for its sentences, or
\* an exception; it is not called when the guards of chunk_text reject the text
EmbedOutcomes(t) ==
    IF empty_input(t) # "none" THEN {[raised |-> None, embs |-> <<>>]}
    ELSE {[raised |-> None, embs |-> e] :
             e \in {x \in Encodings(split_into_sentences(t)) :
                       x[1] = <<1, 0>> /\ \A k \in DOMAIN x : x[k] \in IngestVecs}}
         \cup {[raised |-> Some(Exc("Exception", <<EmbedderText>>)), embs |-> <<>>]}

\* the message of the ValueError that chunk_text raises
empty_input_message(t) ==
    IF t = <<>> \/ strip(t) = <<>> THEN "Text cannot be empty"
    ELSE "No sentences found in text"

\* chunk_text(text, document_id) on the service's chunker
chunker_call(t, outcome) ==
    IF empty_input(t) # "none"
    THEN [raised |-> Some(Exc("ValueError", <<empty_input_message(t)>>)),
          chunk_infos |-> <<>>, failed |-> "none"]
    ELSE IF outcome.raised.some
    THEN [raised |-> outcome.raised, chunk_infos |-> <<>>, failed |-> "embedder"]
    ELSE [raised |-> None, chunk_infos |-> chunk_text(t, outcome.embs).chunks,
          failed |-> "none"]

\* ---- routes.upload_document ----

\* the ChunkModel of lines 85-100; the form carries no tags
upload_chunk(document_id, source, page_number, info) ==
    [chunk_id |-> document_id \o <<"_", "p">> \o int_str(page_number)
                  \o <<"_", "c">> \o int_str(info.chunk_index),
     document_id |-> document_id,
     user_id |-> "u1",
     content |-> info.content,
     metadata |-> [source |-> source,
                   page_number |-> page_number,
                   chunk_index |-> info.chunk_index,
                   tags |-> {}]]

RECURSIVE chunk_pages(_, _, _, _, _, _)
\* the loop over extraction_result["pages"] from page k on, all_chunks given
chunk_pages(pages, embed, document_id, source, k, all_chunks) ==
    IF k > Len(pages)
    THEN [raised |-> None, chunks |-> all_chunks, failed |-> "none"]
    ELSE LET c == chunker_call(pages[k].text, embed[k])
         IN  IF c.raised.some
             THEN [raised |-> c.raised, chunks |-> <<>>, failed |-> c.failed]
             ELSE chunk_pages(pages, embed, document_id, source, k + 1,
                              all_chunks \o
                              [j \in 1..Len(c.chunk_infos) |->
                                  upload_chunk(document_id, source,
                                               pages[k].page_number, c.chunk_infos[j])])

\* the embedder's behaviour on each extracted page, when pages are extracted
EmbedChoices(file, lib) ==
    LET x == extract_text_from_file(file, lib)
    IN  IF validate_file(file).some \/ x.raised.some THEN {<<>>}
        ELSE {f \in [1..Len(x.pages) -> UNION {EmbedOutcomes(t) : t \in PageTexts}] :
                 \A k \in 1..Len(x.pages) : f[k] \in EmbedOutcomes(x.pages[k].text)}

\* the body of the try block; uuid is the value uuid4 gives when called
upload_document_try(file, lib, embed, uuid) ==
    IF validate_file(file).some
    THEN [raised |-> validate_file(file), chunks |-> <<>>, failed |-> "none", uuids |-> 0]
    ELSE LET extraction_result == extract_text_from_file(file, lib)
         IN  IF extraction_result.raised.some
             THEN [raised |-> extraction_result.raised, chunks |-> <<>>,
                   failed |-> IF lib.some THEN "extractor" ELSE "none", uuids |-> 0]
             ELSE LET document_id == <<"d", "o", "c", "_">> \o int_str(uuid)
                      r == chunk_pages(extraction_result.pages, embed, document_id,
                                       extraction_result.source, 1, <<>>)
                  IN  [raised |-> r.raised, chunks |-> r.chunks,
                       failed |-> r.failed, uuids |-> 1]

\* the HTTP answer for what a try block raised under the two except clauses
\* of upload_document: 400 with str(e), 500 with the text followed by str(e)
upload_answer(t) ==
    IF ~t.raised.some
    THEN [raised |-> "none", status |-> 200, detail |-> <<>>, chunks |-> t.chunks]
    ELSE IF t.raised.val.type = "ValueError"
    THEN [raised |-> "HTTPException", status |-> 400,
          detail |-> t.raised.val.msg, chunks |-> <<>>]
    ELSE [raised |-> "HTTPException", status |-> 500,
          detail |-> <<"Error processing document: ">> \o t.raised.val.msg,
          chunks |-> <<>>]

\* variant: the chunks of a successful upload are also put into the store
upload_document_indexing(file, lib, embed, uuid) ==
    LET t == upload_document_try(file, lib, embed, uuid)
    IN  [response |-> upload_answer(t),
         calls |-> IF t.raised.some \/ t.chunks = <<>> THEN <<>>
                   ELSE <<[op |-> "index_chunks", chunks |-> t.chunks]>>,
         failed |-> t.failed, uuids |-> t.uuids]

\* upload_document: no repository call on any path
upload_document(file, lib, embed, uuid) ==
    LET t == upload_document_try(file, lib, embed, uuid)
    IN  [response |-> upload_answer(t), calls |-> <<>>,
         failed |-> t.failed, uuids |-> t.uuids]

\* ---- routes.index_chunks ----

\* what the store may do when asked to put chunks: None, or the exception
StoreOutcomes == {None, Some(Exc("ValueError", <<StoreText>>)),
                  Some(Exc("Exception", <<StoreText>>))}

\* the body of the try block: the HTTPException for an empty list is raised
\* inside it
index_chunks_try(chunk_list, put) ==
    IF chunk_list = <<>>
    THEN [raised |-> Some(Exc("HTTPException", <<"Chunks list cannot be empty">>)),
          calls |-> <<>>, failed |-> "none"]
    ELSE [raised |-> put,
          calls |-> <<[op |-> "index_chunks", chunks |-> chunk_list]>>,
          failed |-> IF put.some THEN "store" ELSE "none"]

\* the except clauses: ValueError, then Exception
index_chunks(chunk_list, put) ==
    LET t == index_chunks_try(chunk_list, put)
    IN  [response |->
            IF ~t.raised.some
            THEN [raised |-> "none", status |-> 200, detail |-> <<>>, chunks |-> <<>>]
            ELSE IF t.raised.val.type = "ValueError"
            THEN [raised |-> "HTTPException", status |-> 400,
                  detail |-> t.raised.val.msg, chunks |-> <<>>]
            ELSE [raised |-> "HTTPException", status |-> 500,
                  detail |-> <<"Error indexing chunks">>, chunks |-> <<>>],
         calls |-> t.calls, failed |-> t.failed]

\* ---- VectorService.index_document ----

DocIds == {<<"d", "1">>}
Contents == PageTexts \cup {<<>>}

\* the ChunkModel of lines 56-72; source and tags are left at their defaults
document_chunk(document_id, page_number, info) ==
    [chunk_id |-> document_id \o <<"_", "c", "h", "u", "n", "k", "_">>
                  \o int_str(info.chunk_index),
     document_id |-> document_id,
     user_id |-> "u1",
     content |-> info.content,
     metadata |-> [source |-> "pdf",
                   page_number |-> page_number,
                   chunk_index |-> info.chunk_index,
                   tags |-> {}]]

\* index_document raises what chunk_text or the repository raises; status 0
\* marks an answer that is not an HTTP response
index_document(document_id, content, page_number, outcome, put) ==
    IF content = <<>> \/ strip(content) = <<>>
    THEN [response |-> [raised |-> "ValueError", status |-> 0,
                        detail |-> <<"Content cannot be empty">>, chunks |-> <<>>],
          calls |-> <<>>, failed |-> "none"]
    ELSE LET c == chunker_call(content, outcome)
             made == [j \in 1..Len(c.chunk_infos) |->
                         document_chunk(document_id, page_number, c.chunk_infos[j])]
         IN  IF c.raised.some
             THEN [response |-> [raised |-> c.raised.val.type, status |-> 0,
                                 detail |-> c.raised.val.msg, chunks |-> <<>>],
                   calls |-> <<>>, failed |-> c.failed]
             ELSE IF put.some
             THEN [response |-> [raised |-> put.val.type, status |-> 0,
                                 detail |-> put.val.msg, chunks |-> made],
                   calls |-> <<[op |-> "index_chunks", chunks |-> made]>>,
                   failed |-> "store"]
             ELSE [response |-> [raised |-> "none", status |-> 0,
                                 detail |-> <<>>, chunks |-> made],
                   calls |-> <<[op |-> "index_chunks", chunks |-> made]>>,
                   failed |-> "none"]

\* the store is asked only when the chunker has returned
PutOutcomes(content, outcome) ==
    IF content = <<>> \/ strip(content) = <<>> \/ chunker_call(content, outcome).raised.some
    THEN {None}
    ELSE StoreOutcomes

-----------------------------------------------------------------------------
(* Specification of ingestion: up to MaxOps operations on one service, the *)
(* store empty at the start                                                *)

InitIngest ==
    /\ ChunkIdle
    /\ SplitIdle
    /\ SearchIdle
    /\ StoreIdle
    /\ FusionIdle
    /\ IngestIdle

\* POST /vector/upload
Upload ==
    /\ ingest_ops < MaxOps
    /\ \E file \in Files :
          \E lib \in LibOutcomes(file) :
             \E embed \in EmbedChoices(file, lib) :
                \E r \in {upload_document(file, lib, embed, uuid_calls)} :
                    /\ ingest_response' = Some(r.response)
                    /\ ingest_calls' = r.calls
                    /\ ingest_failed' = r.failed
                    /\ created' = created \cup elements(r.response.chunks)
                    /\ returned' = IF r.response.status = 200
                                   THEN returned \cup {r.response.chunks}
                                   ELSE returned
                    /\ uuid_calls' = uuid_calls + r.uuids
                    /\ store' = store_after(store, r.calls)
    /\ ingest_op' = "upload"
    /\ ingest_ops' = ingest_ops + 1
    /\ UNCHANGED index_request
    /\ UNCHANGED <<chunkVars, splitVars, searchVars, fusionVars>>

\* POST /vector/index with an empty list or with the list of an upload response
PostIndex ==
    /\ ingest_ops < MaxOps
    /\ \E chunk_list \in returned \cup {<<>>} :
          \E put \in (IF chunk_list = <<>> THEN {None} ELSE StoreOutcomes) :
             \E r \in {index_chunks(chunk_list, put)} :
                 /\ index_request' = Some(chunk_list)
                 /\ ingest_response' = Some(r.response)
                 /\ ingest_calls' = r.calls
                 /\ ingest_failed' = r.failed
                 /\ store' = IF r.failed = "store" THEN store
                             ELSE store_after(store, r.calls)
    /\ ingest_op' = "index"
    /\ ingest_ops' = ingest_ops + 1
    /\ UNCHANGED <<created, returned, uuid_calls>>
    /\ UNCHANGED <<chunkVars, splitVars, searchVars, fusionVars>>

\* vector_service.index_document(document_id, user_id, content, page_number=...)
IndexDocument ==
    /\ ingest_ops < MaxOps
    /\ \E document_id \in DocIds, content \in Contents, page_number \in PageNumbers :
          \E outcome \in EmbedOutcomes(content) :
             \E put \in PutOutcomes(content, outcome) :
                \E r \in {index_document(document_id, content, page_number, outcome, put)} :
                    /\ ingest_response' = Some(r.response)
                    /\ ingest_calls' = r.calls
                    /\ ingest_failed' = r.failed
                    /\ created' = created \cup elements(r.response.chunks)
                    /\ store' = IF r.failed = "store" THEN store
                                ELSE store_after(store, r.calls)
    /\ ingest_op' = "index_document"
    /\ ingest_ops' = ingest_ops + 1
    /\ UNCHANGED <<returned, uuid_calls, index_request>>
    /\ UNCHANGED <<chunkVars, splitVars, searchVars, fusionVars>>

NextIngest == Upload \/ PostIndex \/ IndexDocument

SpecIngest == InitIngest /\ [][NextIngest]_vars

-----------------------------------------------------------------------------
(* Properties of the chunker and the splitter *)

Returned == pc = "done" /\ error = "none"

RECURSIVE SumCounts(_, _)
\* number of sentences in the first k chunks
SumCounts(cs, k) == IF k = 0 THEN 0 ELSE SumCounts(cs, k - 1) + cs[k].sentence_count

\* the sentences that chunk k stands for: the next sentence_count ones
GroupOf(k) ==
    SubSeq(sentences, SumCounts(chunks, k - 1) + 1, SumCounts(chunks, k))

\* C1: the sentence groups of the returned chunks, concatenated in chunk
\* order, are the splitter's sentence sequence: the groups are consecutive
\* runs of it that cover it, and each content is its run joined by spaces.
Thm_C1_SentencesPreserved ==
    Returned =>
        /\ sentences = split_into_sentences(text)
        /\ SumCounts(chunks, Len(chunks)) = Len(sentences)
        /\ \A k \in 1..Len(chunks) :
              /\ chunks[k].sentence_count >= 1
              /\ chunks[k].content = join(GroupOf(k))

Wit_C1_SeveralGroups ==
    /\ Returned
    /\ Len(sentences) = 3
    /\ Len(chunks) = 2
    /\ chunks[1].sentence_count = 2

\* C2 as stated: a chunk's content is at most chunk_size characters long
\* unless it is one sentence that alone exceeds chunk_size.
Orig_C2_SizeLimit ==
    Returned =>
        \A k \in 1..Len(chunks) :
            \/ Len(chunks[k].content) <= chunk_size
            \/ chunks[k].sentence_count = 1

\* C6 as stated: threshold 0 and a size limit above the text length give
\* exactly one chunk holding every sentence, whatever the embeddings.
Orig_C6_OneChunk ==
    (Returned /\ similarity_threshold = Frac(0, 1) /\ chunk_size > Len(text)) =>
        /\ Len(chunks) = 1
        /\ chunks[1].sentence_count = Len(sentences)

NonZero(v) == v # <<0, 0>>
\* b is a positive multiple of a (a, b non-zero): same direction
SameDirection(a, b) == a[1] * b[2] - a[2] * b[1] = 0 /\ Dot(a, b) > 0

PairwiseNonIdentical ==
    \A i, j \in 1..Len(embeddings) : i # j => embeddings[i] # embeddings[j]

EverySingle == \A k \in 1..Len(chunks) : chunks[k].sentence_count = 1

\* C7 as stated (for embeddings that are moreover non-zero): threshold 1 and
\* pairwise non-identical embeddings give one sentence per chunk.
Orig_C7_NonIdentical ==
    (/\ Returned
     /\ similarity_threshold = Frac(1, 1)
     /\ \A i \in 1..Len(embeddings) : NonZero(embeddings[i])
     /\ PairwiseNonIdentical) => EverySingle

\* C7 amended: threshold 1 and consecutive embeddings that are non-zero and
\* do not point in the same direction give one sentence per chunk, whatever
\* the size limit.
Thm_C7_NotSameDirection ==
    (/\ Returned
     /\ similarity_threshold = Frac(1, 1)
     /\ \A i \in 1..Len(embeddings) : NonZero(embeddings[i])
     /\ \A i \in 2..Len(embeddings) :
           ~SameDirection(embeddings[i - 1], embeddings[i])) => EverySingle

Wit_C7_SplitBySimilarity ==
    /\ Returned
    /\ similarity_threshold = Frac(1, 1)
    /\ chunk_size > Len(text)
    /\ Len(sentences) = 2
    /\ \A i \in 1..Len(embeddings) : NonZero(embeddings[i])
    /\ \A i \in 2..Len(embeddings) :
          ~SameDirection(embeddings[i - 1], embeddings[i])
    /\ Len(chunks) = 2

\* no '.', '!' or '?' of t is immediately followed by whitespace
NoBoundary(t) ==
    \A i \in 1..(Len(t) - 1) : ~(IsTerminal(t[i]) /\ IsSpace(t[i + 1]))

HasVisible(t) == \E i \in 1..Len(t) : ~IsSpace(t[i])

\* C8 as stated: a non-empty text without a boundary splits into exactly one
\* sentence, the trimmed text.
Orig_C8_OneSentence ==
    (split_pc = "done" /\ split_text # <<>> /\ NoBoundary(split_text)) =>
        split_result = <<strip(split_text)>>

\* C8 amended: a text with at least one non-whitespace character and without
\* a boundary splits into exactly one sentence, the trimmed text.
Thm_C8_OneSentence ==
    (split_pc = "done" /\ HasVisible(split_text) /\ NoBoundary(split_text)) =>
        split_result = <<strip(split_text)>>

Wit_C8_InnerSpace ==
    /\ split_pc = "done"
    /\ NoBoundary(split_text)
    /\ Len(split_text) >= 4
    /\ IsSpace(split_text[1])
    /\ IsSpace(split_text[3])
    /\ IsTerminal(split_text[4])
    /\ Len(split_result) = 1

\* C9: chunk_text on a text that is empty, all whitespace or without any
\* sentence raises the empty-input ValueError and never calls the embedder.
Thm_C9_EmptyInput ==
    (/\ pc = "done"
     /\ \/ \A i \in 1..Len(text) : IsSpace(text[i])
        \/ split_into_sentences(text) = <<>>) =>
        /\ error \in {"ValueError: Text cannot be empty",
                      "ValueError: No sentences found in text"}
        /\ encode_calls = 0
        /\ chunks = <<>>

Wit_C9_Whitespace ==
    /\ pc = "done"
    /\ Len(text) >= 2
    /\ \A i \in 1..Len(text) : IsSpace(text[i])
    /\ error = "ValueError: Text cannot be empty"

-----------------------------------------------------------------------------
(* Properties of the search path *)

\* smart_search ran on the request
Searched == request.some /\ service_result.some

QueryPresent == request.val.query.some /\ request.val.query.val # ""
FilterPresent == request.val.filters.some

\* the repository operation that was called
Strategy == IF repo_calls = <<>> THEN "none" ELSE repo_calls[1].op

\* C3: the strategy is decided by (non-empty query present, filter present)
\* alone: both give hybrid, only the query semantic, only the filter metadata.
Thm_C3_StrategyTable ==
    Searched =>
        /\ Len(repo_calls) <= 1
        /\ (QueryPresent /\ FilterPresent) => Strategy = "hybrid_search"
        /\ (QueryPresent /\ ~FilterPresent) => Strategy = "semantic_search"
        /\ (~QueryPresent /\ FilterPresent) => Strategy = "metadata_search"

Wit_C3_EmptyQueryWithFilter ==
    /\ Searched
    /\ request.val.query = Some("")
    /\ FilterPresent
    /\ request.val.top_k = MaxTopK
    /\ Strategy = "metadata_search"

\* C4 as stated: with neither a non-empty query nor a filter, smart_search
\* fails with an error and does not complete normally.
Orig_C4_NeitherRaises ==
    (Searched /\ ~QueryPresent /\ ~FilterPresent) =>
        service_result.val.raised # "none"

\* C4 amended: with neither a non-empty query nor a filter, smart_search calls
\* no repository search and completes normally with an empty result list.
Thm_C4_NeitherReturnsEmpty ==
    (Searched /\ ~QueryPresent /\ ~FilterPresent) =>
        /\ service_result.val.raised = "none"
        /\ service_result.val.results = <<>>
        /\ repo_calls = <<>>

Wit_C4_Neither ==
    /\ search_pc = "returned"
    /\ Searched
    /\ ~QueryPresent
    /\ ~FilterPresent
    /\ service_result.val.results = <<>>

\* C5 as stated: a request that reaches the handler with neither a non-empty
\* query nor a filter is answered with a 400 response.
Orig_C5_NeitherIs400 ==
    (search_pc = "responded" /\ request.some /\ ~QueryPresent /\ ~FilterPresent) =>
        response.val.status = 400

TopKOutOfRange == body.top_k.some /\ body.top_k.val \notin 1..MaxTopK

\* C10: a body whose top_k is outside 1..100 is rejected (422) before any
\* handler code runs, whatever else it carries; no request object exists for
\* it, and every repository call carries the body's top_k within 1..100.
Thm_C10_TopKRejected ==
    /\ (search_pc = "responded" /\ TopKOutOfRange) =>
          /\ response.val.status = 422
          /\ ~request.some
          /\ ~service_result.some
    /\ search_pc = "returned" => ~TopKOutOfRange
    /\ \A i \in 1..Len(repo_calls) :
          /\ repo_calls[i].top_k \in 1..MaxTopK
          /\ repo_calls[i].top_k = field_or(body.top_k, DefaultTopK)

Wit_C10_HybridTooLarge ==
    /\ search_pc = "responded"
    /\ body.top_k = Some(MaxTopK + 1)
    /\ body.query = Some("refund policy")
    /\ body.filters.some
    /\ response.val.status = 422

\* smart_search returned a result list
SearchReturned == Searched /\ service_result.val.raised = "none"

SearchResults == service_result.val.results

SearchOps == {"hybrid_search", "semantic_search", "metadata_search"}

\* C12: a search step leaves the store's chunk set as it was and calls only
\* the repository's search operations.
Thm_C12_ReadOnly ==
    [][/\ store' = store
       /\ \A i \in 1..Len(repo_calls') : repo_calls'[i].op \in SearchOps]_vars

Wit_C12_SearchedStore ==
    /\ SearchReturned
    /\ Strategy = "semantic_search"
    /\ Cardinality(store) = 2
    /\ Len(SearchResults) = 2

\* the stored chunk behind result k, its vector score and its metadata match
ResultChunk(k) == CHOOSE c \in store : c.chunk_id = SearchResults[k].chunk_id
ResultVectorScore(k) == store_answer.val.scores[ResultChunk(k)]
ResultMatch(k) ==
    IF matches(request.val.filters.val, ResultChunk(k)) THEN Frac(1, 1) ELSE Frac(0, 1)
ResultFused(k) ==
    LET w == request.val.weight_vector.val
    IN  FAdd(FMul(w, ResultVectorScore(k)), FMul(FSub(Frac(1, 1), w), ResultMatch(k)))

\* C19: a hybrid result list carries the fused scores
\* w * vector_score + (1 - w) * metadata_match and is in descending fused
\* score, then descending vector_score, then ascending chunk_id.
Thm_C19_HybridOrder ==
    (SearchReturned /\ Strategy = "hybrid_search") =>
        /\ \A k \in 1..Len(SearchResults) :
              FEq(SearchResults[k].similarity_score, ResultFused(k))
        /\ \A k \in 1..(Len(SearchResults) - 1) :
              \/ LessThan(ResultFused(k + 1), ResultFused(k))
              \/ /\ FEq(ResultFused(k), ResultFused(k + 1))
                 /\ \/ LessThan(ResultVectorScore(k + 1), ResultVectorScore(k))
                    \/ /\ FEq(ResultVectorScore(k), ResultVectorScore(k + 1))
                       /\ SearchResults[k].chunk_id < SearchResults[k + 1].chunk_id

\* the scenario of the specification: the chunk that does not match, with
\* vector score 0.9, ranks before the matching one with 0.4 at weight 0.7
Wit_C19_Scenario ==
    /\ SearchReturned
    /\ Strategy = "hybrid_search"
    /\ request.val.weight_vector.val = Frac(7, 10)
    /\ Len(SearchResults) >= 2
    /\ FEq(SearchResults[1].similarity_score, Frac(63, 100))
    /\ FEq(SearchResults[2].similarity_score, Frac(58, 100))
    /\ ResultMatch(1) = Frac(0, 1)
    /\ ResultMatch(2) = Frac(1, 1)


-----------------------------------------------------------------------------
(* Properties of the similarity scorer inside chunk_text *)

ZeroNorm(v) == Norm(v) = 0

\* sentence i is the first sentence of one of the returned chunks
OpensGroup(i) == \E k \in 1..Len(chunks) : SumCounts(chunks, k - 1) + 1 = i

\* C16 as stated: when one of two consecutive sentence embeddings has norm
\* zero the similarity counts as 0, so under a threshold above 0 the group is
\* closed before the second of the two sentences (and the call returns).
Orig_C16_ZeroNormCloses ==
    (pc = "done" /\ Len(embeddings) >= 2) =>
        /\ error = "none"
        /\ LessThan(Frac(0, 1), similarity_threshold) =>
              \A i \in 2..Len(embeddings) :
                  (ZeroNorm(embeddings[i - 1]) \/ ZeroNorm(embeddings[i]))
                      => OpensGroup(i)

\* C17 as stated: the score of two non-zero embeddings lies in [0,1].
Orig_C17_UnitInterval ==
    Returned =>
        \A i \in 2..Len(embeddings) :
            (NonZero(embeddings[i - 1]) /\ NonZero(embeddings[i])) =>
                LET s == calculate_similarity(embeddings[i - 1], embeddings[i])
                IN  /\ ~LessThan(s, Frac(0, 1))
                    /\ ~LessThan(Frac(1, 1), s)


-----------------------------------------------------------------------------
(* Properties of construction *)

\* C18 as stated: no constructed chunker has an overlap that is not strictly
\* below its size limit, so none can be used to chunk text.
Orig_C18_OverlapBelowSize ==
    pc # "new" => chunk_overlap < chunk_size


-----------------------------------------------------------------------------
(* Properties of score fusion *)

Fused == fuse_pc = "done"

\* the position of candidate c in a ranking, 1 being the top
Position(ranking, c) == CHOOSE k \in 1..Len(ranking) : ranking[k].chunk = c

\* no candidate has a higher vector score than c
Highest(c) ==
    \A d \in DOMAIN fuse_in.scores :
        ~LessThan(fuse_in.scores[c], fuse_in.scores[d])

\* every other candidate has a lower vector score than c
StrictlyHighest(c) ==
    \A d \in DOMAIN fuse_in.scores \ {c} :
        LessThan(fuse_in.scores[d], fuse_in.scores[c])

NotWorse(c) ==
    Position(fuse_out.val.under_w2, c) <= Position(fuse_out.val.under_w1, c)

\* C20 as stated: for w1 <= w2 a candidate with the highest vector_score is
\* never further from the top under w2 than under w1.
Orig_C20_HighestNotWorse ==
    Fused => \A c \in DOMAIN fuse_in.scores : Highest(c) => NotWorse(c)

\* C20 amended: for w1 <= w2 the candidate whose vector_score is strictly
\* higher than every other candidate's is never further from the top under
\* w2 than under w1.
Thm_C20_StrictlyHighestNotWorse ==
    Fused => \A c \in DOMAIN fuse_in.scores : StrictlyHighest(c) => NotWorse(c)

\* the strictly highest candidate does not match the filter, is below a
\* matching candidate under w1 and above it under w2
Wit_C20_Overtakes ==
    /\ Fused
    /\ LessThan(fuse_in.w1, fuse_in.w2)
    /\ \E c \in DOMAIN fuse_in.scores :
          /\ StrictlyHighest(c)
          /\ ~matches(fuse_in.filters, c)
          /\ Position(fuse_out.val.under_w1, c) > 1
          /\ Position(fuse_out.val.under_w2, c) = 1


-----------------------------------------------------------------------------
(* Properties of ingestion *)

\* the chunks that the repository calls of a step ask the store to put
PutChunks(calls) ==
    UNION {elements(calls[k].chunks) : k \in {n \in 1..Len(calls) : calls[n].op = "index_chunks"}}

Orig_C14_UniqueChunkIds ==
    \A x, y \in created :
        (\/ x.document_id # y.document_id
         \/ x.metadata.page_number # y.metadata.page_number
         \/ x.metadata.chunk_index # y.metadata.chunk_index)
            => x.chunk_id # y.chunk_id

\* the text of a collaborator's exception is part of the detail
Leaks(detail) == \E k \in 1..Len(detail) : detail[k] \in CollaboratorTexts

\* C15 as stated: when a collaborator fails during an upload or an index
\* request the answer is a 500 whose detail holds no text of the exception.
Orig_C15_GenericServiceError ==
    (ingest_op \in {"upload", "index"} /\ ingest_failed # "none") =>
        /\ ingest_response.val.status = 500
        /\ ~Leaks(ingest_response.val.detail)

-----------------------------------------------------------------------------
(* Properties of the chunk records of chunk_text *)

\* C26: in a returned list the k-th chunk counting from 0 has chunk_index k
\* (0, 1, ..., n-1, no gap and no repeat) and every chunk holds at least one
\* sentence.
Thm_C26_IndexIsPosition ==
    Returned =>
        \A k \in 1..Len(chunks) :
            /\ chunks[k].chunk_index = k - 1
            /\ chunks[k].sentence_count >= 1

Wit_C26_ThreeChunks ==
    /\ Returned
    /\ Len(chunks) = 3
    /\ chunks[3].chunk_index = 2

\* C27: in a returned list the first chunk starts at 0, every chunk ends at
\* start_pos + len(content), each later chunk starts one past the end of the
\* chunk before it, and so the last chunk ends at the length of all the
\* sentences joined by single spaces.
Thm_C27_OffsetsChain ==
    Returned =>
        /\ Len(chunks) >= 1
        /\ chunks[1].start_pos = 0
        /\ \A k \in 1..Len(chunks) :
              chunks[k].end_pos = chunks[k].start_pos + Len(chunks[k].content)
        /\ \A k \in 2..Len(chunks) :
              chunks[k].start_pos = chunks[k - 1].end_pos + 1
        /\ chunks[Len(chunks)].end_pos = Len(join(sentences))

Wit_C27_SecondChunkOffset ==
    /\ Returned
    /\ Len(chunks) = 2
    /\ chunks[1].end_pos = 2
    /\ chunks[2].start_pos = 3
    /\ chunks[2].end_pos = 4

\* the first sentence of the group that sentence i belongs to
LastOpened(i) ==
    CHOOSE j \in 1..i : OpensGroup(j) /\ \A m \in (j + 1)..i : ~OpensGroup(m)

\* the length of the open group, joined by spaces, when sentence i is examined
current_length(i) == Len(join(SubSeq(sentences, LastOpened(i - 1), i - 1)))

\* C25 as stated: the group is closed before sentence i exactly when the
\* similarity of sentences i-1 and i is strictly below the threshold or
\* current_length + len(sentence i) + 1 exceeds the size limit; in particular
\* a sentence that would make the joined content size_limit + 1 characters
\* long is not appended.
Orig_C25_CloseRule ==
    Returned =>
        \A i \in 2..Len(sentences) :
            OpensGroup(i) <=>
                \/ LessThan(calculate_similarity(embeddings[i - 1], embeddings[i]),
                            similarity_threshold)
                \/ current_length(i) + Len(sentences[i]) + 1 > chunk_size

\* C23 as stated: POST /vector/index with an empty chunk list is answered
\* with a 400 whose message says that the chunk list cannot be empty, and
\* the store's index operation is not invoked.
Orig_C23_EmptyListIs400 ==
    (ingest_op = "index" /\ index_request = Some(<<>>)) =>
        /\ ingest_response.val.status = 400
        /\ ingest_response.val.detail = <<"Chunks list cannot be empty">>
        /\ ingest_calls = <<>>

-----------------------------------------------------------------------------
(* Properties of the repository calls of smart_search *)

\* C28: a smart_search call makes exactly one repository search call when a
\* non-empty query or a filter is present and none otherwise; the call carries
\* the request's top_k (and weight_vector for hybrid) unchanged, and a call
\* that the store or the embedder failed is not made again: the failure is
\* what smart_search raises.
Thm_C28_OneCallNoRetry ==
    Searched =>
        /\ Len(repo_calls) = (IF QueryPresent \/ FilterPresent THEN 1 ELSE 0)
        /\ \A i \in 1..Len(repo_calls) :
              /\ repo_calls[i].op \in SearchOps
              /\ repo_calls[i].top_k = request.val.top_k
              /\ repo_calls[i].op = "hybrid_search" =>
                    repo_calls[i].weight_vector
                        = field_or(request.val.weight_vector, Frac(7, 10))
        /\ (store_answer.some /\ store_answer.val.raised # "none") =>
              /\ Len(repo_calls) = 1
              /\ service_result.val.raised = store_answer.val.raised

Wit_C28_FailedHybridOnce ==
    /\ Searched
    /\ store_answer.some
    /\ store_answer.val.raised = "Exception"
    /\ repo_calls = <<[op |-> "hybrid_search", query |-> "refund policy",
                       filters |-> [source |-> Some("pdf"), tags |-> Some({"billing"})],
                       top_k |-> 2, weight_vector |-> Frac(1, 1)]>>

\* the (chunk, score) pairs that the repository handed to smart_search
Received ==
    IF repo_calls = <<>> THEN <<>> ELSE repository(store_answer.val, repo_calls[1])

\* the store call raised, or one of the received pairs cannot be mapped
SearchFailed ==
    /\ store_answer.some
    /\ \/ store_answer.val.raised # "none"
       \/ \E k \in 1..Len(Received) :
             Received[k].chunk \in store_answer.val.unmappable

\* C22: smart_search either raises, and then returns no list at all, or
\* returns one SearchResult per received pair, in the same order and with the
\* same score; when the store call or the mapping of one pair fails it
\* raises and never returns a prefix of the list.
Thm_C22_CompleteOrError ==
    Searched =>
        IF SearchFailed
        THEN /\ service_result.val.raised # "none"
             /\ service_result.val.results = <<>>
        ELSE /\ service_result.val.raised = "none"
             /\ Len(SearchResults) = Len(Received)
             /\ \A k \in 1..Len(Received) :
                   /\ SearchResults[k].chunk_id = Received[k].chunk.chunk_id
                   /\ SearchResults[k].similarity_score = Received[k].score

\* the second of two received pairs cannot be mapped
Wit_C22_SecondPairFails ==
    /\ Searched
    /\ store_answer.some
    /\ store_answer.val.raised = "none"
    /\ Len(Received) = 2
    /\ Received[1].chunk \notin store_answer.val.unmappable
    /\ Received[2].chunk \in store_answer.val.unmappable
    /\ service_result.val.raised = "ValidationError"

-----------------------------------------------------------------------------
(* Properties of the HTTP surface *)

\* the body is a well-formed request of the kind that the path names
WellFormedFor(p, b) ==
    CASE p = "/vector/search/semantic" ->
             SemanticSearchRequest(b).some /\ truthy_query(b.query)
      [] p = "/vector/search/metadata" -> MetadataSearchRequest(b).some
      [] p = "/vector/search/hybrid" ->
             HybridSearchRequest(b).some /\ truthy_query(b.query)
      [] OTHER -> FALSE

\* C24 as stated: a POST of a well-formed request of the matching kind to
\* /vector/search/semantic, /vector/search/metadata or /vector/search/hybrid
\* is answered with a 200.
Orig_C24_StrategyEndpoints ==
    (/\ search_pc # "received"
     /\ path.some
     /\ path.val \in {"/vector/search/semantic", "/vector/search/metadata",
                      "/vector/search/hybrid"}
     /\ WellFormedFor(path.val, body)) =>
        /\ response.some
        /\ response.val.status = 200

-----------------------------------------------------------------------------
(* Properties of concurrent chunking *)

\* C21: a chunk_text call that ran interleaved with another call on the
\* same instance returns (or raises) exactly what it returns when run
\* alone on its text and its embeddings, and the instance's size limit and
\* threshold are not written.
Thm_C21_Independent ==
    /\ \A c \in DOMAIN frames :
          frames[c].pc = "done" =>
              /\ frames[c].error = chunk_text(frames[c].text, frames[c].embeddings).error
              /\ frames[c].chunks = chunk_text(frames[c].text, frames[c].embeddings).chunks
    /\ frames # <<>> => similarity_threshold = Frac(1, 2) /\ chunk_size \in ConcSizes

\* call 1 has returned two chunks while call 2 is inside its loop with a
\* group of two sentences open
Wit_C21_Overlapped ==
    /\ frames # <<>>
    /\ frames[1].pc = "done"
    /\ Len(frames[1].chunks) = 2
    /\ frames[2].pc = "loop"
    /\ Len(locals[2].st.current_chunk) = 2

====
